---------------------------- MODULE Spec2Model ----------------------------
(***************************************************************************)
(* katachi: validation of an observed directory tree against a schema.     *)
(* The model follows src/src/katachi/validation/validators.py              *)
(* (SchemaValidator), validation/registry.py (NodeRegistry),               *)
(* validation/core.py (ValidationReport, ValidatorRegistry) and            *)
(* schema/actions.py (ActionRegistry, process_node).                       *)
(*                                                                         *)
(* The recursion of _validate_structure is an explicit call stack; every   *)
(* step of a frame is one action.  Strings are sequences of one-character  *)
(* strings so that split / endswith / join are computed, not assumed.      *)
(***************************************************************************)
EXTENDS Naturals, Sequences, FiniteSets, TLC

(***************************************************************************)
(* Bounds of the model                                                     *)
(***************************************************************************)
\* files an observed tree may hold
MaxFiles == 2

(***************************************************************************)
(* Strings (python str) as sequences of characters                         *)
(***************************************************************************)
Slash == "/"

Dot == "."

\* the elements of a sequence, as a set
Range(s) == {s[i] : i \in 1..Len(s)}

\* every string taken to end with every suffix
EndsWith_always(s, suf) == TRUE

\* python: s.endswith(suf)
EndsWith(s, suf) ==
    /\ Len(suf) <= Len(s)
    /\ SubSeq(s, Len(s) - Len(suf) + 1, Len(s)) = suf

\* python: s.split(sep) for a one-character sep; never empty
RECURSIVE SplitFrom(_, _, _, _)
SplitFrom(s, sep, i, cur) ==
    IF i > Len(s) THEN <<cur>>
    ELSE IF s[i] = sep THEN <<cur>> \o SplitFrom(s, sep, i + 1, <<>>)
    ELSE SplitFrom(s, sep, i + 1, Append(cur, s[i]))

Split(s, sep) == SplitFrom(s, sep, 1, <<>>)

\* python: sep.join(parts)
RECURSIVE Join(_, _)
Join(parts, sep) ==
    IF Len(parts) = 0 THEN <<>>
    ELSE IF Len(parts) = 1 THEN parts[1]
    ELSE parts[1] \o <<sep>> \o Join(Tail(parts), sep)

\* python: seq[-1]
Last(seq) == seq[Len(seq)]

\* python: seq[:-1]
ButLast(seq) == SubSeq(seq, 1, Len(seq) - 1)

\* python: f"{parent}/{name}"
PathJoin(parent, name) == parent \o <<Slash>> \o name

\* the concatenation of a sequence of sequences
RECURSIVE Flatten(_)
Flatten(seqs) == IF Len(seqs) = 0 THEN <<>> ELSE seqs[1] \o Flatten(Tail(seqs))

\* every sequence that lists the elements of the finite set S once
RECURSIVE Orderings(_)
Orderings(S) ==
    IF S = {} THEN {<<>>}
    ELSE UNION {{<<x>> \o t : t \in Orderings(S \ {x})} : x \in S}

(***************************************************************************)
(* Regular expressions: a compiled pattern is a sequence of atoms, an atom *)
(* a character class taken once or one-or-more times.  re.match anchors at *)
(* the start of the string only.                                           *)
(***************************************************************************)
Digits == {"0", "1", "2", "3", "4", "5", "6", "7", "8", "9"}

NoPattern == <<>>

\* r"\d+"
PatternDigits == <<[class |-> Digits, plus |-> TRUE]>>

\* the positions at which a match of atoms k.. that starts at position i may end
RECURSIVE MatchEnds(_, _, _, _)
MatchEnds(pat, k, s, i) ==
    IF k > Len(pat) THEN {i}
    ELSE IF i > Len(s) \/ s[i] \notin pat[k].class THEN {}
    ELSE MatchEnds(pat, k + 1, s, i + 1)
         \cup (IF pat[k].plus THEN MatchEnds(pat, k, s, i + 1) ELSE {})

\* python: pattern.match(s) is not None
ReMatch(pat, s) == MatchEnds(pat, 1, s, 1) # {}

(***************************************************************************)
(* Schema trees (schema/schema_node.py).  A schema is a sequence of nodes, *)
(* a node's identity is its index, the root is node 1, and a directory's   *)
(* children are listed in declaration order.                               *)
(***************************************************************************)
\* SchemaFile
File(name, ext, pat) ==
    [type |-> "file", semantical_name |-> name, extension |-> ext,
     pattern_validation |-> pat, children |-> <<>>,
     predicate_type |-> "", elements |-> <<>>]

\* SchemaDirectory
Directory(name, pat, kids) ==
    [type |-> "directory", semantical_name |-> name, extension |-> <<>>,
     pattern_validation |-> pat, children |-> kids,
     predicate_type |-> "", elements |-> <<>>]

\* SchemaPredicateNode
Predicate(name, ptype, elems) ==
    [type |-> "predicate", semantical_name |-> name, extension |-> <<>>,
     pattern_validation |-> NoPattern, children |-> <<>>,
     predicate_type |-> ptype, elements |-> elems]

E_jpg == <<"j", "p", "g">>

E_txt == <<"t", "x", "t">>

\* the characters of a semantical name (python: f"{child.semantical_name}")
Chars(name) ==
    CASE name = "data" -> <<"d", "a", "t", "a">>
      [] name = "root" -> <<"r", "o", "o", "t">>
      [] name = "image" -> <<"i", "m", "a", "g", "e">>
      [] name = "label" -> <<"l", "a", "b", "e", "l">>
      [] name = "pairs" -> <<"p", "a", "i", "r", "s">>
      [] name = "note" -> <<"n", "o", "t", "e">>
      [] name = "dirA" -> <<"d", "i", "r", "A">>
      [] name = "dirB" -> <<"d", "i", "r", "B">>
      [] name = "item" -> <<"i", "t", "e", "m">>
      [] name = "sub" -> <<"s", "u", "b">>
      [] name = "mask" -> <<"m", "a", "s", "k">>

\* tests/schema_tests/test_paired_files: images and labels side by side
SchemaPaired ==
    << Directory("data", NoPattern, <<2, 3, 4>>),
       File("image", E_jpg, NoPattern),
       File("label", E_txt, NoPattern),
       Predicate("pairs", "pair_comparison", <<"image", "label">>) >>

\* tests/schema_tests/test_ambiguous_dirs: alternative shapes for one entry
SchemaAmbiguous ==
    << Directory("root", NoPattern, <<2, 3, 5>>),
       File("note", E_txt, NoPattern),
       Directory("dirA", NoPattern, <<4>>),
       File("image", E_jpg, NoPattern),
       Directory("dirB", NoPattern, <<6>>),
       File("label", E_txt, NoPattern) >>

SchemaPool == <<SchemaPaired, SchemaAmbiguous>>

\* tests/schema_falling_tests/simple_missing_image: one jpg file expected
SchemaSingle ==
    << Directory("data", NoPattern, <<2>>),
       File("item", E_jpg, NoPattern) >>

\* a pair_comparison declared inside a directory below the root
SchemaNested ==
    << Directory("data", NoPattern, <<2>>),
       Directory("sub", NoPattern, <<3, 4, 5>>),
       File("image", E_jpg, NoPattern),
       File("label", E_txt, NoPattern),
       Predicate("pairs", "pair_comparison", <<"image", "label">>) >>

\* a SchemaDirectory as constructed, before any add_child
SchemaBare == << Directory("data", NoPattern, <<>>) >>

\* a directory without declared children declared below the root
SchemaBareSub ==
    << Directory("data", NoPattern, <<2>>),
       Directory("sub", NoPattern, <<>>) >>

SchemaCases == <<SchemaSingle, SchemaNested, SchemaBare, SchemaBareSub>>

Schemas == SchemaPool \o SchemaCases

(***************************************************************************)
(* Observed filesystems (the fsspec capability: isfile, isdir, ls).  A     *)
(* filesystem is the set of its file paths and the set of its directory    *)
(* paths; the target is absent, a file, or a directory holding files and   *)
(* at most one sub-directory of files, MaxFiles files in all.              *)
(***************************************************************************)
F_a_jpg == <<"a", ".", "j", "p", "g">>
F_a_txt == <<"a", ".", "t", "x", "t">>
F_b_jpg == <<"b", ".", "j", "p", "g">>
D_d == <<"d">>

FileNames == {F_a_jpg, F_a_txt, F_b_jpg}

DirNames == {D_d}

P_data == <<"d", "a", "t", "a">>

TargetPaths == {P_data}

FsPool(root) ==
    {[files |-> {}, dirs |-> {}], [files |-> {root}, dirs |-> {}]}
    \cup {[files |-> {PathJoin(root, f) : f \in F}, dirs |-> {root}] :
            F \in {T \in SUBSET FileNames : Cardinality(T) <= MaxFiles}}
    \cup {[files |-> {PathJoin(root, f) : f \in FG[1]}
                     \cup {PathJoin(PathJoin(root, d), g) : g \in FG[2]},
           dirs |-> {root, PathJoin(root, d)}] :
            FG \in {T \in (SUBSET FileNames) \X (SUBSET FileNames) :
                      Cardinality(T[1]) + Cardinality(T[2]) <= MaxFiles},
            d \in DirNames}

\* fs.isfile(path)
isfile(fsys, path) == path \in fsys.files

\* fs.isdir(path)
isdir(fsys, path) == path \in fsys.dirs

\* the entries fs.ls(path) returns, in no particular order
Entries(fsys, path) ==
    {q \in fsys.files \cup fsys.dirs :
        /\ Len(q) > Len(path) + 1
        /\ SubSeq(q, 1, Len(path) + 1) = path \o <<Slash>>
        /\ Slash \notin Range(SubSeq(q, Len(path) + 2, Len(q)))}

\* fs.ls(path): every order the backend may list the entries in
ls(fsys, path) == Orderings(Entries(fsys, path))

(***************************************************************************)
(* ValidationResult and ValidationReport (validation/core.py).  A report   *)
(* is handled as its list of results; a message is its template followed   *)
(* by the values formatted into it.                                        *)
(***************************************************************************)
ValidationResult(valid, origin, msg, path, vname) ==
    [is_valid |-> valid, node_origin |-> origin, message |-> msg,
     path |-> path, validator_name |-> vname]

\* ValidationReport.is_valid
IsValid(results) == \A i \in 1..Len(results) : results[i].is_valid

(***************************************************************************)
(* Node validation (validators.py, validate_node and below)                *)
(***************************************************************************)
\* the pattern check skipped once the extension check failed
validate_file_short_circuit(fsys, node, path) ==
    IF ~isfile(fsys, path)
    THEN <<ValidationResult(FALSE, node.semantical_name,
              <<"Path does not exist or is not a file: ", path>>,
              path, "file_exists")>>
    ELSE IF node.extension # <<>> /\ ~EndsWith(path, node.extension)
    THEN <<ValidationResult(FALSE, node.semantical_name,
              <<"File extension mismatch: expected ", node.extension,
                ", got ", Last(Split(path, Dot))>>,
              path, "file_extension")>>
    ELSE IF node.pattern_validation # NoPattern
            /\ ~ReMatch(node.pattern_validation, Last(Split(path, Slash)))
    THEN <<ValidationResult(FALSE, node.semantical_name,
              <<"Filename does not match pattern: ">>,
              path, "file_pattern")>>
    ELSE <<>>

validate_file(fsys, node, path) ==
    IF ~isfile(fsys, path)
    THEN <<ValidationResult(FALSE, node.semantical_name,
              <<"Path does not exist or is not a file: ", path>>,
              path, "file_exists")>>
    ELSE (IF node.extension # <<>> /\ ~EndsWith(path, node.extension)
          THEN <<ValidationResult(FALSE, node.semantical_name,
                    <<"File extension mismatch: expected ", node.extension,
                      ", got ", Last(Split(path, Dot))>>,
                    path, "file_extension")>>
          ELSE <<>>)
         \o
         (IF node.pattern_validation # NoPattern
             /\ ~ReMatch(node.pattern_validation, Last(Split(path, Slash)))
          THEN <<ValidationResult(FALSE, node.semantical_name,
                    <<"Filename does not match pattern: ">>,
                    path, "file_pattern")>>
          ELSE <<>>)

\* the return after the directory_exists failure left out
validate_directory_no_return(fsys, node, path) ==
    (IF ~isdir(fsys, path)
     THEN <<ValidationResult(FALSE, node.semantical_name,
               <<"Path does not exist or is not a directory: ", path>>,
               path, "directory_exists")>>
     ELSE <<>>)
    \o
    (IF node.pattern_validation # NoPattern
        /\ ~ReMatch(node.pattern_validation, Last(Split(path, Slash)))
     THEN <<ValidationResult(FALSE, node.semantical_name,
               <<"Directory name does not match pattern: ">>,
               path, "directory_pattern")>>
     ELSE <<>>)

\* lines 303-346 with a check that a directory declaring children holds an entry
validate_directory_requires_entries(fsys, node, path) ==
    IF ~isdir(fsys, path)
    THEN <<ValidationResult(FALSE, node.semantical_name,
              <<"Path does not exist or is not a directory: ", path>>,
              path, "directory_exists")>>
    ELSE IF node.pattern_validation # NoPattern
            /\ ~ReMatch(node.pattern_validation, Last(Split(path, Slash)))
    THEN <<ValidationResult(FALSE, node.semantical_name,
              <<"Directory name does not match pattern: ">>,
              path, "directory_pattern")>>
    ELSE IF node.children # <<>> /\ Entries(fsys, path) = {}
    THEN <<ValidationResult(FALSE, node.semantical_name,
              <<"Directory holds none of its declared children: ">>,
              path, "directory_children")>>
    ELSE <<>>

validate_directory(fsys, node, path) ==
    IF ~isdir(fsys, path)
    THEN <<ValidationResult(FALSE, node.semantical_name,
              <<"Path does not exist or is not a directory: ", path>>,
              path, "directory_exists")>>
    ELSE IF node.pattern_validation # NoPattern
            /\ ~ReMatch(node.pattern_validation, Last(Split(path, Slash)))
    THEN <<ValidationResult(FALSE, node.semantical_name,
              <<"Directory name does not match pattern: ">>,
              path, "directory_pattern")>>
    ELSE <<>>

validate_node(fsys, node, path) ==
    CASE node.type = "file" -> validate_file(fsys, node, path)
      [] node.type = "directory" -> validate_directory(fsys, node, path)
      [] node.type = "predicate" -> <<>>
      [] OTHER -> <<ValidationResult(FALSE, node.semantical_name,
                       <<"Unknown schema node type: ", node.type>>,
                       path, "schema_type")>>

(***************************************************************************)
(* Custom validators (core.py, ValidatorRegistry).  A registered validator *)
(* is a name and a function; the function objects to the nodes whose       *)
(* semantical name is in `on`: it returns one failure signed `tag`         *)
(* ("fail"), raises ("raise"), or returns one valid result ("pass").       *)
(***************************************************************************)
Validator(name, mode, on, tag) ==
    [name |-> name, mode |-> mode, on |-> on, tag |-> tag]

\* one validator_func(node, path) call, with the except branch of the loop
RunValidator(v, node, path) ==
    IF node.semantical_name \notin v.on THEN <<>>
    ELSE CASE v.mode = "fail" ->
                <<ValidationResult(FALSE, node.semantical_name,
                     <<"custom check failed">>, path, v.tag)>>
           [] v.mode = "pass" ->
                <<ValidationResult(TRUE, node.semantical_name,
                     <<"custom check passed">>, path, v.tag)>>
           [] v.mode = "raise" ->
                <<ValidationResult(FALSE, node.semantical_name,
                     <<"Validator ", v.name, " failed: ">>, path, v.name)>>

\* ValidatorRegistry.run_validators
RECURSIVE run_validators(_, _, _)
run_validators(vs, node, path) ==
    IF Len(vs) = 0 THEN <<>>
    ELSE RunValidator(vs[1], node, path) \o run_validators(Tail(vs), node, path)

NoValidators == <<>>

\* a validator that fails the nodes named label and dirB
ValidatorsPerm == <<Validator("perm", "fail", {"label", "dirB"}, "perm")>>

\* a validator that raises on the nodes named note, and one that reports a
\* valid result for the nodes named image and label
ValidatorsBoomSeen ==
    <<Validator("boom", "raise", {"note"}, "boom"),
      Validator("seen", "pass", {"image", "label"}, "seen")>>

(***************************************************************************)
(* NodeRegistry (validation/registry.py)                                   *)
(***************************************************************************)
EmptyMap == [k \in {} |-> k]

NodeContext(node, path, parent_paths) ==
    [node |-> node, path |-> path, parent_paths |-> parent_paths]

\* NodeRegistry.__init__
NewRegistry ==
    [nodes_by_name |-> EmptyMap, nodes_by_path |-> EmptyMap, processed_dirs |-> {}]

\* NodeRegistry.get_contexts_by_name
get_contexts_by_name(reg, name) ==
    IF name \in DOMAIN reg.nodes_by_name THEN reg.nodes_by_name[name] ELSE <<>>

\* NodeRegistry.get_paths_by_name
get_paths_by_name(reg, name) ==
    [i \in 1..Len(get_contexts_by_name(reg, name)) |->
        get_contexts_by_name(reg, name)[i].path]

\* NodeRegistry.register_node; name is node.semantical_name
register_node(reg, node, name, path, parent_paths) ==
    LET context == NodeContext(node, path, parent_paths)
    IN  [reg EXCEPT
           !.nodes_by_name =
               (name :> Append(get_contexts_by_name(reg, name), context)) @@ @,
           !.nodes_by_path = (path :> context) @@ @]

\* NodeRegistry.register_processed_dir
register_processed_dir(reg, dir_path) ==
    [reg EXCEPT !.processed_dirs = @ \cup {dir_path}]

(***************************************************************************)
(* Actions (schema/actions.py).  ActionRegistry._actions is a dict, kept   *)
(* here as the list of its registrations in insertion order, one per node  *)
(* name.  A callback either returns or raises (`raises`).                  *)
(***************************************************************************)
ActionRegistration(node_name, timing, raises) ==
    [node_name |-> node_name, timing |-> timing, raises |-> raises]

ActionResult(success, message, path, action_name) ==
    [success |-> success, message |-> message, path |-> path,
     action_name |-> action_name]

\* one call of a registered callback: what it was handed
Invocation(timing, node_name, node, path, parents, ctx, raised) ==
    [timing |-> timing, node_name |-> node_name, node |-> node, path |-> path,
     parent_contexts |-> parents, context |-> ctx, raised |-> raised]

\* the caller's context argument: None, or a dict known by a token
None == "None"

EmptyDict == "{}"

UserDict == "{user: u}"

\* python: context or {}
ContextOrEmpty(ctx) == IF ctx \in {None, EmptyDict} THEN EmptyDict ELSE ctx

\* ActionRegistry.get: the registrations for node_name (none or one)
ActionRegistryGet(acts, node_name) ==
    SelectSeq(acts, LAMBDA r : r.node_name = node_name)

\* process_node: the callback invocations it makes (none or one)
process_node(acts, node, name, path, parent_ctxs, ctx) ==
    LET registration == ActionRegistryGet(acts, name)
    IN  IF Len(registration) > 0 /\ registration[1].timing = "DURING_VALIDATION"
        THEN <<Invocation("DURING_VALIDATION", name, node, path, parent_ctxs,
                          ContextOrEmpty(ctx), registration[1].raises)>>
        ELSE <<>>

\* execute_actions calling back once per node name, for its first context only
execute_actions_calls_once(acts, reg, ctx, timing) ==
    Flatten([i \in 1..Len(acts) |->
        IF acts[i].timing # timing
           \/ get_contexts_by_name(reg, acts[i].node_name) = <<>>
        THEN <<>>
        ELSE LET node_context == get_contexts_by_name(reg, acts[i].node_name)[1]
             IN  <<Invocation(timing, acts[i].node_name, node_context.node,
                              node_context.path, <<>>, ContextOrEmpty(ctx),
                              acts[i].raises)>>])

\* ActionRegistry.execute_actions: the callback invocations, in order
execute_actions_calls(acts, reg, ctx, timing) ==
    Flatten([i \in 1..Len(acts) |->
        IF acts[i].timing # timing THEN <<>>
        ELSE [j \in 1..Len(get_contexts_by_name(reg, acts[i].node_name)) |->
                LET node_context == get_contexts_by_name(reg, acts[i].node_name)[j]
                IN  Invocation(timing, acts[i].node_name, node_context.node,
                               node_context.path, <<>>, ContextOrEmpty(ctx),
                               acts[i].raises)]])

\* ActionRegistry.execute_actions: the list it returns
execute_actions_results(acts, reg, ctx, timing) ==
    LET made == execute_actions_calls(acts, reg, ctx, timing)
    IN  [k \in 1..Len(made) |->
            IF made[k].raised
            THEN ActionResult(FALSE, "Action failed: ", made[k].path, made[k].node_name)
            ELSE ActionResult(TRUE, "Action executed successfully",
                              made[k].path, made[k].node_name)]

NoActions == <<>>

ActionsDuring ==
    <<ActionRegistration("image", "DURING_VALIDATION", FALSE),
      ActionRegistration("dirA", "DURING_VALIDATION", FALSE)>>

ActionsAfter ==
    <<ActionRegistration("dirA", "AFTER_VALIDATION", FALSE),
      ActionRegistration("image", "AFTER_VALIDATION", TRUE),
      ActionRegistration("label", "AFTER_VALIDATION", FALSE)>>

ActionsDuringRaising == <<ActionRegistration("image", "DURING_VALIDATION", TRUE)>>

ActionsMixed ==
    <<ActionRegistration("label", "DURING_VALIDATION", FALSE),
      ActionRegistration("image", "AFTER_VALIDATION", FALSE)>>

\* one way of calling validate_schema: its arguments and what is registered
RunSetup(exec, ctx, acts, vals) ==
    [execute_actions |-> exec, context |-> ctx, actions |-> acts, validators |-> vals]

RunSetups ==
    { RunSetup(FALSE, None, NoActions, NoValidators),
      RunSetup(FALSE, None, ActionsAfter, NoValidators),
      RunSetup(FALSE, None, ActionsDuring, ValidatorsPerm),
      RunSetup(FALSE, None, NoActions, ValidatorsBoomSeen),
      RunSetup(TRUE, None, ActionsDuring, NoValidators),
      RunSetup(TRUE, UserDict, ActionsAfter, NoValidators),
      RunSetup(TRUE, None, ActionsDuringRaising, NoValidators),
      RunSetup(TRUE, UserDict, ActionsMixed, NoValidators),
      RunSetup(TRUE, None, ActionsDuring, ValidatorsPerm),
      RunSetup(TRUE, None, ActionsAfter, ValidatorsBoomSeen),
      RunSetup(TRUE, UserDict, ActionsMixed, ValidatorsPerm),
      RunSetup(TRUE, None, ActionsMixed, ValidatorsBoomSeen) }

(***************************************************************************)
(* Predicates (validators.py, validate_predicate, _evaluate_predicates)    *)
(***************************************************************************)
\* the filter of lines 386 and 401: p is under the directory `path`
UnderDirectory(path, p) ==
    \/ path \in Range(ButLast(Split(p, Slash)))
    \/ path = Join(ButLast(Split(p, Slash)), Slash)

\* python: p.split("/")[-1].split(".")[0]
BaseName(p) == Split(Last(Split(p, Slash)), Dot)[1]

\* the loop over the elements left at the first element without a match
PairFailures_first_only(pred, path, reg, base_name) ==
    LET rest == Tail(pred.elements)
        lacking == {e \in 1..Len(rest) :
                      \A p \in Range(get_paths_by_name(reg, rest[e])) :
                          UnderDirectory(path, p) => BaseName(p) # base_name}
    IN  IF lacking = {} THEN <<>>
        ELSE LET e == CHOOSE m \in lacking : \A k \in lacking : m <= k
             IN  <<ValidationResult(FALSE, pred.semantical_name,
                      <<"Missing matching ", rest[e], " for ", pred.elements[1],
                        " with base name ", base_name>>,
                      path, pred.semantical_name)>>

\* the failures of one base name, lines 398-421
PairFailures(pred, path, reg, base_name) ==
    LET rest == Tail(pred.elements)
    IN  Flatten([e \in 1..Len(rest) |->
          LET element_paths ==
                SelectSeq(get_paths_by_name(reg, rest[e]),
                          LAMBDA p : UnderDirectory(path, p))
          IN  IF \E i \in 1..Len(element_paths) : BaseName(element_paths[i]) = base_name
              THEN <<>>
              ELSE <<ValidationResult(FALSE, pred.semantical_name,
                        <<"Missing matching ", rest[e], " for ", pred.elements[1],
                          " with base name ", base_name>>,
                        path, pred.semantical_name)>>])

\* validate_predicate leaving the loop over the base names after the first one
validate_predicate_first_base(pred, path, reg, order) ==
    IF pred.predicate_type # "pair_comparison" THEN <<>>
    ELSE IF Len(pred.elements) < 2
    THEN <<ValidationResult(FALSE, pred.semantical_name,
              <<"Pair comparison predicate needs at least 2 elements, got ",
                Len(pred.elements)>>,
              path, pred.semantical_name)>>
    ELSE LET first_paths ==
               SelectSeq(get_paths_by_name(reg, pred.elements[1]),
                         LAMBDA p : UnderDirectory(path, p))
             base_names == {BaseName(first_paths[i]) : i \in 1..Len(first_paths)}
             iterated == SelectSeq(order, LAMBDA b : b \in base_names)
         IN  Flatten([k \in 1..(IF Len(iterated) > 0 THEN 1 ELSE 0) |->
                        PairFailures(pred, path, reg, iterated[k])])

\* validate_predicate; `order` is the iteration order of python's set of
\* strings, given as a list of all base names
validate_predicate(pred, path, reg, order) ==
    IF pred.predicate_type # "pair_comparison" THEN <<>>
    ELSE IF Len(pred.elements) < 2
    THEN <<ValidationResult(FALSE, pred.semantical_name,
              <<"Pair comparison predicate needs at least 2 elements, got ",
                Len(pred.elements)>>,
              path, pred.semantical_name)>>
    ELSE LET first_paths ==
               SelectSeq(get_paths_by_name(reg, pred.elements[1]),
                         LAMBDA p : UnderDirectory(path, p))
             base_names == {BaseName(first_paths[i]) : i \in 1..Len(first_paths)}
             iterated == SelectSeq(order, LAMBDA b : b \in base_names)
         IN  Flatten([k \in 1..Len(iterated) |->
                        PairFailures(pred, path, reg, iterated[k])])

\* traverse_for_predicates of _evaluate_predicates
RECURSIVE traverse_for_predicates(_, _, _, _, _)
traverse_for_predicates(sch, n, path, reg, order) ==
    (IF sch[n].type = "predicate"
     THEN validate_predicate(sch[n], path, reg, order) ELSE <<>>)
    \o
    (IF sch[n].type = "directory"
     THEN Flatten([i \in 1..Len(sch[n].children) |->
            LET child == sch[n].children[i]
                child_path == IF sch[child].type # "predicate"
                              THEN PathJoin(path, Chars(sch[child].semantical_name))
                              ELSE path
            IN  traverse_for_predicates(sch, child, child_path, reg, order)])
     ELSE <<>>)

\* every base name a registered path has
RegisteredBaseNames(reg) == {BaseName(p) : p \in DOMAIN reg.nodes_by_path}

(***************************************************************************)
(* State                                                                   *)
(***************************************************************************)
VARIABLES
    schema,            \* the schema tree handed to validate_schema (index in Schemas)
    target_path,       \* the target_path argument
    fs,                \* the observed filesystem
    execute_actions,   \* the execute_actions argument
    context,           \* the context argument
    actions,           \* ActionRegistry._actions
    validators,        \* ValidatorRegistry._validators
    phase,             \* where validate_schema stands
    stack,             \* the active _validate_structure calls, innermost last
    parent_contexts,   \* the list shared by all _validate_structure calls
    registry,          \* the NodeRegistry of the run
    report,            \* validate_schema's report (results and context)
    predicate_report,  \* validate_schema's predicate_report
    predicate_runs,    \* how often _evaluate_predicates was called
    invocations,       \* every callback call made so far, in order
    calls,             \* every _validate_structure call made so far, in order
    probe              \* a direct call of one function: its arguments and result

inputs == <<schema, target_path, fs, execute_actions, context, actions, validators,
            probe>>

vars == <<schema, target_path, fs, execute_actions, context, actions, validators,
          phase, stack, parent_contexts, registry, report, predicate_report,
          predicate_runs, invocations, calls, probe>>

\* no function is called directly
NoProbe == [fn |-> "none"]

\* the schema node with identity n
Node(n) == Schemas[schema][n]

Top == stack[Len(stack)]

SetTop(frame) == [stack EXCEPT ![Len(stack)] = frame]

\* a _validate_structure call at its first line
Frame(id, node, path) ==
    [id |-> id, node |-> node, path |-> path, pc |-> "validate", report |-> <<>>,
     child_paths |-> <<>>, ci |-> 0, cand |-> 0,
     child_valid |-> FALSE, child_reports |-> <<>>]

\* the record of a call: who made it, for which candidate, and what it returned
Call(node, path, parent, cand) ==
    [node |-> node, path |-> path, parent |-> parent, cand |-> cand,
     returned |-> FALSE, step1 |-> <<>>, registered |-> FALSE, results |-> <<>>]

NewReport == [results |-> <<>>, context |-> EmptyMap]

Init ==
    /\ schema \in 1..Len(SchemaPool)
    /\ target_path \in TargetPaths
    /\ fs \in FsPool(target_path)
    /\ \E setup \in RunSetups :
          /\ execute_actions = setup.execute_actions
          /\ context = setup.context
          /\ actions = setup.actions
          /\ validators = setup.validators
    /\ phase = "structure"
    /\ stack = <<Frame(1, 1, target_path)>>
    /\ parent_contexts = <<>>
    /\ registry = NewRegistry
    /\ report = NewReport
    /\ predicate_report = <<>>
    /\ predicate_runs = 0
    /\ invocations = <<>>
    /\ calls = <<Call(1, target_path, 0, 0)>>
    /\ probe = NoProbe

InFrame(pc) == phase = "structure" /\ stack # <<>> /\ Top.pc = pc

(***************************************************************************)
(* _validate_structure, lines 113-125: node validation, custom validators, *)
(* early return                                                            *)
(***************************************************************************)
\* line 124
EarlyReturn(node_report, combined) == ~IsValid(node_report)

ValidateNode ==
    /\ InFrame("validate")
    /\ LET node_report == validate_node(fs, Node(Top.node), Top.path)
           custom_results == run_validators(validators, Node(Top.node), Top.path)
           combined == node_report \o custom_results
       IN  /\ stack' = SetTop([Top EXCEPT
                  !.report = combined,
                  !.pc = IF EarlyReturn(node_report, combined)
                         THEN "return" ELSE "register"])
           /\ calls' = [calls EXCEPT ![Top.id].step1 = combined]
    /\ UNCHANGED <<inputs, phase, parent_contexts, registry, report,
                   predicate_report, predicate_runs, invocations>>

(***************************************************************************)
(* lines 127-129: register the node                                        *)
(***************************************************************************)
\* line 128
ParentPaths(ctxs) == [i \in 1..Len(ctxs) |-> ctxs[i][2]]

RegisterNode ==
    /\ InFrame("register")
    /\ registry' = register_node(registry, Top.node,
                                 Node(Top.node).semantical_name, Top.path,
                                 ParentPaths(parent_contexts))
    /\ calls' = [calls EXCEPT ![Top.id].registered = TRUE]
    /\ stack' = SetTop([Top EXCEPT !.pc = "actions"])
    /\ UNCHANGED <<inputs, phase, parent_contexts, report, predicate_report,
                   predicate_runs, invocations>>

(***************************************************************************)
(* lines 131-133: during-validation action; an exception of the callback   *)
(* is not caught anywhere and leaves validate_schema                       *)
(***************************************************************************)
\* line 132
ActionsRequested == execute_actions

ProcessNode ==
    /\ InFrame("actions")
    /\ LET made == IF ActionsRequested
                   THEN process_node(actions, Top.node,
                                     Node(Top.node).semantical_name, Top.path,
                                     parent_contexts, context)
                   ELSE <<>>
       IN  /\ invocations' = invocations \o made
           /\ IF Len(made) > 0 /\ made[1].raised
              THEN /\ phase' = "raised"
                   /\ stack' = <<>>
              ELSE /\ phase' = phase
                   /\ stack' = SetTop([Top EXCEPT !.pc = "children"])
    /\ UNCHANGED <<inputs, parent_contexts, registry, report, predicate_report,
                   predicate_runs, calls>>

(***************************************************************************)
(* lines 135-164: the children of a directory                              *)
(***************************************************************************)
\* lines 142-144 with a loop that handles the first listed entry only
StartChild_first_only(frame) ==
    IF frame.ci <= Len(frame.child_paths) /\ frame.ci <= 1
    THEN [frame EXCEPT !.child_valid = FALSE, !.child_reports = <<>>,
                       !.cand = 1, !.pc = "candidates"]
    ELSE [frame EXCEPT !.pc = "leave"]

\* line 142-144: the head of the loop over child_paths
StartChild(frame) ==
    IF frame.ci <= Len(frame.child_paths)
    THEN [frame EXCEPT !.child_valid = FALSE, !.child_reports = <<>>,
                       !.cand = 1, !.pc = "candidates"]
    ELSE [frame EXCEPT !.pc = "leave"]

\* line 136
IsObservedDirectory(node, path) == node.type = "directory" /\ isdir(fs, path)

\* the directories of a filesystem whose listing raises an OSError; a
\* filesystem record without the field has none
Unreadable(fsys) == IF "unreadable" \in DOMAIN fsys THEN fsys.unreadable ELSE {}

\* lines 136-140; nothing catches what schema.fs.ls raises at line 137
EnterDirectory ==
    /\ InFrame("children")
    /\ IF IsObservedDirectory(Node(Top.node), Top.path)
       THEN IF Top.path \in Unreadable(fs)
            THEN /\ phase' = "raised"
                 /\ stack' = <<>>
                 /\ parent_contexts' = parent_contexts
            ELSE \E listed \in ls(fs, Top.path) :
                   /\ stack' = SetTop(StartChild([Top EXCEPT !.child_paths = listed,
                                                             !.ci = 1]))
                   /\ parent_contexts' = Append(parent_contexts, <<Top.node, Top.path>>)
                   /\ phase' = phase
       ELSE /\ stack' = SetTop([Top EXCEPT !.pc = "return"])
            /\ parent_contexts' = parent_contexts
            /\ phase' = phase
    /\ UNCHANGED <<inputs, registry, report, predicate_report,
                   predicate_runs, invocations, calls>>

\* lines 146-153 with a loop that does not move on after a predicate child
TryCandidate_retry ==
    /\ InFrame("candidates")
    /\ LET children == Node(Top.node).children
       IN  IF Top.cand > Len(children)
           THEN /\ stack' = SetTop([Top EXCEPT !.pc = "merge"])
                /\ calls' = calls
           ELSE IF Node(children[Top.cand]).type = "predicate"
           THEN /\ stack' = stack
                /\ calls' = calls
           ELSE /\ stack' = Append(SetTop([Top EXCEPT !.pc = "await"]),
                                   Frame(Len(calls) + 1, children[Top.cand],
                                         Top.child_paths[Top.ci]))
                /\ calls' = Append(calls, Call(children[Top.cand],
                                               Top.child_paths[Top.ci],
                                               Top.id, Top.cand))
    /\ UNCHANGED <<inputs, phase, parent_contexts, registry, report,
                   predicate_report, predicate_runs, invocations>>

\* lines 146-153: the next declared child, a recursive call unless a predicate
TryCandidate ==
    /\ InFrame("candidates")
    /\ LET children == Node(Top.node).children
       IN  IF Top.cand > Len(children)
           THEN /\ stack' = SetTop([Top EXCEPT !.pc = "merge"])
                /\ calls' = calls
           ELSE IF Node(children[Top.cand]).type = "predicate"
           THEN /\ stack' = SetTop([Top EXCEPT !.cand = @ + 1])
                /\ calls' = calls
           ELSE /\ stack' = Append(SetTop([Top EXCEPT !.pc = "await"]),
                                   Frame(Len(calls) + 1, children[Top.cand],
                                         Top.child_paths[Top.ci]))
                /\ calls' = Append(calls, Call(children[Top.cand],
                                               Top.child_paths[Top.ci],
                                               Top.id, Top.cand))
    /\ UNCHANGED <<inputs, phase, parent_contexts, registry, report,
                   predicate_report, predicate_runs, invocations>>

\* the test of line 157 never succeeding: every declared child is tried
AcceptCandidate_never(child_report) == FALSE

\* line 157
AcceptCandidate(child_report) == IsValid(child_report)

\* lines 155-160: the recursive call returns its report
ChildReturn ==
    /\ InFrame("return")
    /\ Len(stack) > 1
    /\ LET child_report == Top.report
           parent == stack[Len(stack) - 1]
           tried == [parent EXCEPT !.child_reports = Append(@, child_report)]
       IN  stack' = Append(SubSeq(stack, 1, Len(stack) - 2),
                       IF AcceptCandidate(child_report)
                       THEN [tried EXCEPT !.child_valid = TRUE,
                                          !.report = @ \o child_report,
                                          !.pc = "merge"]
                       ELSE [tried EXCEPT !.cand = @ + 1, !.pc = "candidates"])
    /\ calls' = [calls EXCEPT ![Top.id].returned = TRUE,
                              ![Top.id].results = Top.report]
    /\ UNCHANGED <<inputs, phase, parent_contexts, registry, report,
                   predicate_report, predicate_runs, invocations>>

\* lines 162-164 without the test of child_valid
MergeFailed_always(child_valid, child_reports) == Flatten(child_reports)

\* lines 162-164 keeping the first attempt's report only
MergeFailed_first(child_valid, child_reports) ==
    IF ~child_valid /\ child_reports # <<>> THEN child_reports[1] ELSE <<>>

\* lines 162-164 reporting a child path for which no declared child was tried
MergeFailed_unmatched(child_valid, child_reports) ==
    IF child_valid THEN <<>>
    ELSE IF child_reports = <<>>
    THEN <<ValidationResult(FALSE, "", <<"No declared child matches">>,
                            <<>>, "unmatched")>>
    ELSE Flatten(child_reports)

\* lines 162-164: what a child path nobody matched adds to the report
MergeFailed(child_valid, child_reports) ==
    IF ~child_valid THEN Flatten(child_reports) ELSE <<>>

FinishChildPath ==
    /\ InFrame("merge")
    /\ stack' = SetTop(StartChild([Top EXCEPT
                    !.report = @ \o MergeFailed(Top.child_valid, Top.child_reports),
                    !.ci = @ + 1]))
    /\ UNCHANGED <<inputs, phase, parent_contexts, registry, report,
                   predicate_report, predicate_runs, invocations, calls>>

\* lines 166-170 without the pop of line 167
LeaveDirectory_no_pop ==
    /\ InFrame("leave")
    /\ parent_contexts' = parent_contexts
    /\ registry' = register_processed_dir(registry, Top.path)
    /\ stack' = SetTop([Top EXCEPT !.pc = "return"])
    /\ UNCHANGED <<inputs, phase, report, predicate_report, predicate_runs,
                   invocations, calls>>

\* lines 166-170
LeaveDirectory ==
    /\ InFrame("leave")
    /\ parent_contexts' = ButLast(parent_contexts)
    /\ registry' = register_processed_dir(registry, Top.path)
    /\ stack' = SetTop([Top EXCEPT !.pc = "return"])
    /\ UNCHANGED <<inputs, phase, report, predicate_report, predicate_runs,
                   invocations, calls>>

(***************************************************************************)
(* validate_schema, lines 40-64                                            *)
(***************************************************************************)
\* the gate of line 45 left out
StructureFailed_never(results) == FALSE

\* line 45
StructureFailed(results) == ~IsValid(results)

\* lines 40-46: the outermost _validate_structure call returns
StructureDone ==
    /\ InFrame("return")
    /\ Len(stack) = 1
    /\ report' = [NewReport EXCEPT !.results = Top.report]
    /\ calls' = [calls EXCEPT ![Top.id].returned = TRUE,
                              ![Top.id].results = Top.report]
    /\ stack' = <<>>
    /\ phase' = IF StructureFailed(Top.report) THEN "returned" ELSE "predicates"
    /\ UNCHANGED <<inputs, parent_contexts, registry, predicate_report,
                   predicate_runs, invocations>>

\* the gate of line 54 left out
PredicatesFailed_never(results) == FALSE

\* line 54
PredicatesFailed(results) == ~IsValid(results)

\* lines 48-55
EvaluatePredicates ==
    /\ phase = "predicates"
    /\ \E order \in Orderings(RegisteredBaseNames(registry)) :
         LET found == traverse_for_predicates(Schemas[schema], 1, target_path,
                                              registry, order)
         IN  /\ predicate_report' = found
             /\ report' = [report EXCEPT !.results = @ \o found]
             /\ phase' = IF PredicatesFailed(found) THEN "returned" ELSE "actions"
    /\ predicate_runs' = predicate_runs + 1
    /\ UNCHANGED <<inputs, stack, parent_contexts, registry, invocations, calls>>

\* line 58
AfterActionsRequested == execute_actions

\* lines 57-64
ExecuteAfterActions ==
    /\ phase = "actions"
    /\ LET made == IF AfterActionsRequested
                   THEN execute_actions_calls(actions, registry, context,
                                              "AFTER_VALIDATION")
                   ELSE <<>>
           action_results ==
                   IF AfterActionsRequested
                   THEN execute_actions_results(actions, registry, context,
                                                "AFTER_VALIDATION")
                   ELSE <<>>
       IN  /\ invocations' = invocations \o made
           /\ report' = IF Len(action_results) > 0
                        THEN [report EXCEPT !.context =
                                 [k \in {"action_results"} |-> action_results]]
                        ELSE report
    /\ phase' = "returned"
    /\ UNCHANGED <<inputs, stack, parent_contexts, registry, predicate_report,
                   predicate_runs, calls>>

Next ==
    \/ ValidateNode
    \/ RegisterNode
    \/ ProcessNode
    \/ EnterDirectory
    \/ TryCandidate
    \/ ChildReturn
    \/ FinishChildPath
    \/ LeaveDirectory
    \/ StructureDone
    \/ EvaluatePredicates
    \/ ExecuteAfterActions

Spec == Init /\ [][Next]_vars

(***************************************************************************)
(* Vocabulary of the properties                                            *)
(***************************************************************************)
\* the run has returned a report to the caller
Returned == phase = "returned"

\* the outermost _validate_structure call has returned its report
StructureReturned == calls[1].returned

\* the report of structural validation
StructuralResults == calls[1].results

\* the semantical names of the schema's predicate nodes
PredicateNames ==
    {Schemas[schema][n].semantical_name :
        n \in {m \in 1..Len(Schemas[schema]) :
                  Schemas[schema][m].type = "predicate"}}

\* the results of the returned report that a predicate produced
PredicateResultsIn(results) ==
    SelectSeq(results, LAMBDA r : r.node_origin \in PredicateNames)

AfterInvocations == SelectSeq(invocations, LAMBDA v : v.timing = "AFTER_VALIDATION")

\* the contexts the registry lists under the names with an action of `timing`
RegisteredFor(timing) ==
    {i \in 1..Len(actions) :
        /\ actions[i].timing = timing
        /\ get_contexts_by_name(registry, actions[i].node_name) # <<>>}

(***************************************************************************)
(* C1: predicate evaluation is gated on structural success.                *)
(* _evaluate_predicates runs only after the structural report came back    *)
(* with every result valid, and a report that holds a result produced by   *)
(* a predicate has a structural part without invalid result.               *)
(***************************************************************************)
C1_PredicatesGatedOnStructure ==
    /\ predicate_runs > 0 => StructureReturned /\ IsValid(StructuralResults)
    /\ PredicateResultsIn(report.results) # <<>> =>
           StructureReturned /\ IsValid(StructuralResults)
    /\ Returned /\ ~IsValid(StructuralResults) =>
           /\ predicate_runs = 0
           /\ report.results = StructuralResults

\* a run returned with an invalid structure although an image without its
\* label is registered, which the pair predicate would have reported
C1_Witness ==
    /\ Returned
    /\ ~IsValid(StructuralResults)
    /\ schema = 1
    /\ predicate_runs = 0
    /\ PathJoin(target_path, F_b_jpg) \in DOMAIN registry.nodes_by_path
    /\ PathJoin(target_path, F_a_txt) \notin DOMAIN registry.nodes_by_path

(***************************************************************************)
(* C2 (as claimed): with execute_actions enabled, a run whose structural   *)
(* validation ends invalid invokes no callback of either timing.  Stated   *)
(* for the runs without custom validators, where every invalid result is   *)
(* one of validate_node.                                                   *)
(***************************************************************************)
C2_NoCallbackWhenStructureInvalid ==
    Returned /\ execute_actions /\ validators = <<>>
             /\ ~IsValid(StructuralResults) =>
        invocations = <<>>

(***************************************************************************)
(* C2 (amended): a run whose structural validation ends invalid invokes no *)
(* AFTER_VALIDATION callback, and invokes no callback at all when the root *)
(* node itself fails validate_node; DURING_VALIDATION callbacks of nodes   *)
(* that passed validate_node have already been invoked inline.             *)
(***************************************************************************)
C2_NoAfterCallbackWhenStructureInvalid ==
    StructureReturned /\ ~IsValid(StructuralResults) =>
        /\ AfterInvocations = <<>>
        /\ report.context = EmptyMap
        /\ ~calls[1].registered => invocations = <<>>

\* a run with actions requested returned with an invalid structure while the
\* registry lists a node under a name that has an AFTER_VALIDATION action
C2_Witness ==
    /\ Returned
    /\ execute_actions
    /\ ~IsValid(StructuralResults)
    /\ RegisteredFor("AFTER_VALIDATION") # {}

(***************************************************************************)
(* C3: AFTER_VALIDATION callbacks are invoked only when execute_actions is *)
(* true and after structural validation and predicate evaluation have both *)
(* completed without invalid result; when a predicate result is invalid no *)
(* AFTER_VALIDATION callback is invoked and the report's context holds no  *)
(* action results.                                                         *)
(***************************************************************************)
C3_AfterActionsGated ==
    /\ AfterInvocations # <<>> \/ report.context # EmptyMap =>
           /\ execute_actions
           /\ Returned
           /\ StructureReturned /\ IsValid(StructuralResults)
           /\ predicate_runs = 1 /\ IsValid(predicate_report)
           /\ IsValid(report.results)
    /\ ~IsValid(predicate_report) =>
           AfterInvocations = <<>> /\ report.context = EmptyMap

\* a run with actions requested returned after a predicate failure while the
\* registry lists a node under a name that has an AFTER_VALIDATION action
C3_Witness ==
    /\ Returned
    /\ execute_actions
    /\ ~IsValid(predicate_report)
    /\ RegisteredFor("AFTER_VALIDATION") # {}

(***************************************************************************)
(* C4: when AFTER_VALIDATION actions run, the callback of a name is called *)
(* once for every NodeContext the registry lists under that name, in       *)
(* registration order, with that context's node and path, an empty list of *)
(* parent contexts and the caller's context; the action results attached   *)
(* to the report are one per such call, in the same order, with its path.  *)
(***************************************************************************)
C4_AfterActionsOncePerContext ==
    Returned /\ execute_actions /\ IsValid(report.results) =>
        /\ \A i \in 1..Len(actions) :
             LET name == actions[i].node_name
                 mine == SelectSeq(AfterInvocations, LAMBDA v : v.node_name = name)
                 listed == get_contexts_by_name(registry, name)
             IN  IF actions[i].timing = "AFTER_VALIDATION"
                 THEN /\ Len(mine) = Len(listed)
                      /\ \A j \in 1..Len(mine) :
                           /\ mine[j].node = listed[j].node
                           /\ mine[j].path = listed[j].path
                           /\ mine[j].parent_contexts = <<>>
                           /\ mine[j].context =
                                 (IF context = None THEN EmptyDict ELSE context)
                 ELSE mine = <<>>
        /\ LET action_results ==
                 IF "action_results" \in DOMAIN report.context
                 THEN report.context["action_results"] ELSE <<>>
           IN  /\ Len(action_results) = Len(AfterInvocations)
               /\ \A k \in 1..Len(action_results) :
                    /\ action_results[k].path = AfterInvocations[k].path
                    /\ action_results[k].action_name = AfterInvocations[k].node_name
                    /\ action_results[k].success = ~AfterInvocations[k].raised

\* the name image matched two paths and its AFTER_VALIDATION action left two
\* results with different paths
C4_Witness ==
    /\ Returned
    /\ "action_results" \in DOMAIN report.context
    /\ \E k, l \in 1..Len(report.context["action_results"]) :
         /\ report.context["action_results"][k].action_name = "image"
         /\ report.context["action_results"][l].action_name = "image"
         /\ report.context["action_results"][k].path
              # report.context["action_results"][l].path

(***************************************************************************)
(* Vocabulary of the matching properties                                   *)
(***************************************************************************)
CallIds == 1..Len(calls)

\* the calls made by call p for the observed path cp, in the order made
AttemptsFor(p, cp) ==
    SelectSeq([i \in CallIds |-> i],
              LAMBDA i : calls[i].parent = p /\ calls[i].path = cp)

\* call c returned a report without invalid result
Matched(c) == calls[c].returned /\ IsValid(calls[c].results)

\* q lies below the path p
Below(p, q) ==
    /\ Len(q) > Len(p)
    /\ SubSeq(q, 1, Len(p) + 1) = p \o <<Slash>>

\* the registry lists node n at path p
Listed(n, p) ==
    \E name \in DOMAIN registry.nodes_by_name :
        \E j \in 1..Len(registry.nodes_by_name[name]) :
            /\ registry.nodes_by_name[name][j].node = n
            /\ registry.nodes_by_name[name][j].path = p

\* a callback was invoked for node n at path p
Invoked(n, p) ==
    \E i \in 1..Len(invocations) :
        invocations[i].node = n /\ invocations[i].path = p

\* sub occurs in seq as a block of consecutive elements
IsBlockOf(sub, seq) ==
    \E off \in 0..(Len(seq) - Len(sub)) :
        SubSeq(seq, off + 1, off + Len(sub)) = sub

(***************************************************************************)
(* C5 (as claimed): an error raised by an action callback never aborts     *)
(* validation, for both timings: validate_schema still returns a report,   *)
(* and the error is recorded as an ActionResult with success = false.      *)
(***************************************************************************)
C5_ActionErrorNeverAborts ==
    /\ phase # "raised"
    /\ Returned =>
         \A i \in 1..Len(invocations) :
            invocations[i].raised =>
               /\ "action_results" \in DOMAIN report.context
               /\ \E k \in 1..Len(report.context["action_results"]) :
                    /\ ~report.context["action_results"][k].success
                    /\ report.context["action_results"][k].path = invocations[i].path
                    /\ report.context["action_results"][k].action_name
                          = invocations[i].node_name

(***************************************************************************)
(* C6 (as claimed): a callback is invoked for a (node, path) pair only if  *)
(* the recursive structural validation of that node against that path,     *)
(* subtree included, succeeded.  Stated for the runs without custom        *)
(* validators, on the report the run returned.                             *)
(***************************************************************************)
C6_ActionsOnlyOnMatchedPairs ==
    Returned /\ validators = <<>> =>
        \A i \in 1..Len(invocations) :
            \E c \in CallIds :
                /\ calls[c].node = invocations[i].node
                /\ calls[c].path = invocations[i].path
                /\ Matched(c)

(***************************************************************************)
(* C10 (as claimed): when the combination of the validate_node results and *)
(* the custom-validator results of (schema, path) holds an invalid result, *)
(* the node is not registered, no action is invoked for it and none of its *)
(* children is explored.                                                   *)
(***************************************************************************)
C10_CombinedReportShortCircuits ==
    \A c \in CallIds :
        ~IsValid(calls[c].step1) =>
            /\ ~calls[c].registered
            /\ ~Listed(calls[c].node, calls[c].path)
            /\ ~Invoked(calls[c].node, calls[c].path)
            /\ \A d \in CallIds : calls[d].parent # c

\* the declared children of node n that are not predicates, in declaration order
Candidates(n) ==
    SelectSeq(Node(n).children, LAMBDA k : Node(k).type # "predicate")

(***************************************************************************)
(* C7: greedy first match.  For an observed child path the declared        *)
(* children that are not predicates are tried in declaration order, none   *)
(* skipped; a child is tried only after every earlier one returned an      *)
(* invalid report, so nothing is tried after the first valid one; the      *)
(* valid report is merged into the parent's report, and no later declared  *)
(* child is registered or given an action for that path.                   *)
(***************************************************************************)
C7_GreedyFirstMatch ==
    \A c \in CallIds :
        calls[c].parent # 0 =>
            LET p == calls[c].parent
                kids == Node(calls[p].node).children
            IN  /\ Node(calls[c].node).type # "predicate"
                /\ kids[calls[c].cand] = calls[c].node
                /\ \A j \in 1..(calls[c].cand - 1) :
                      Node(kids[j]).type # "predicate" =>
                          \E b \in 1..(c - 1) :
                              /\ calls[b].parent = p
                              /\ calls[b].path = calls[c].path
                              /\ calls[b].cand = j
                              /\ calls[b].returned
                              /\ ~IsValid(calls[b].results)
                /\ \A d \in CallIds :
                      d > c /\ calls[d].parent = p /\ calls[d].path = calls[c].path =>
                          /\ calls[d].cand > calls[c].cand
                          /\ calls[c].returned
                          /\ ~IsValid(calls[c].results)
                /\ Matched(c) =>
                      /\ \A j \in (calls[c].cand + 1)..Len(kids) :
                            /\ ~Listed(kids[j], calls[c].path)
                            /\ ~Invoked(kids[j], calls[c].path)
                      /\ calls[p].returned =>
                            IsBlockOf(calls[c].results, calls[p].results)

\* dirA matched an observed directory that the later candidate dirB would
\* have passed node validation for as well, and the run returned
C7_Witness ==
    /\ Returned
    /\ schema = 2
    /\ execute_actions
    /\ \E c \in CallIds :
         /\ Matched(c)
         /\ calls[c].node = 3
         /\ validate_node(fs, Node(5), calls[c].path) = <<>>
         /\ calls[c].results # <<>>

(***************************************************************************)
(* C8: backtracking hides near-misses on success.  When a declared child   *)
(* validates an observed child path, the parent's report holds no invalid  *)
(* result for that path or for a path below it, so none of a declared      *)
(* child tried earlier for that path.                                      *)
(***************************************************************************)
C8_NoNearMissAfterMatch ==
    \A p \in CallIds :
        calls[p].returned =>
            \A c \in CallIds :
                calls[c].parent = p /\ Matched(c) =>
                    \A i \in 1..Len(calls[p].results) :
                        ~calls[p].results[i].is_valid =>
                            /\ calls[p].results[i].path # calls[c].path
                            /\ ~Below(calls[c].path, calls[p].results[i].path)

\* alternatives File (ext txt) and Directory against an observed directory:
\* the file candidate failed, the directory candidate was selected
C8_Witness ==
    /\ Returned
    /\ \E a, b \in CallIds :
         /\ a < b
         /\ calls[a].parent = calls[b].parent
         /\ calls[a].path = calls[b].path
         /\ Node(calls[a].node).type = "file"
         /\ Node(calls[a].node).extension = E_txt
         /\ calls[a].returned /\ ~IsValid(calls[a].results)
         /\ Node(calls[b].node).type = "directory"
         /\ Matched(b)
         /\ isdir(fs, calls[b].path)

(***************************************************************************)
(* C9: when no declared child validates an observed child path, every      *)
(* declared child that is not a predicate was tried, their reports are in  *)
(* the parent's report as one block in declaration order, the parent's     *)
(* report is invalid if there was a candidate at all, and every other      *)
(* observed entry of the directory was tried as well.                      *)
(***************************************************************************)
C9_AllNearMissesMerged ==
    \A p \in CallIds :
        /\ calls[p].returned
        /\ calls[p].registered
        /\ IsObservedDirectory(Node(calls[p].node), calls[p].path)
        => \A cp \in Entries(fs, calls[p].path) :
             LET tried == AttemptsFor(p, cp)
                 kids == Candidates(calls[p].node)
             IN  /\ Len(kids) > 0 => Len(tried) > 0
                 /\ (\A k \in 1..Len(tried) : ~Matched(tried[k])) =>
                       /\ Len(tried) = Len(kids)
                       /\ \A k \in 1..Len(tried) : calls[tried[k]].node = kids[k]
                       /\ IsBlockOf(Flatten([k \in 1..Len(tried) |->
                                               calls[tried[k]].results]),
                                    calls[p].results)
                       /\ Len(tried) > 0 => ~IsValid(calls[p].results)

\* an observed entry failed two candidates and an entry listed after it was
\* still tried and matched
C9_Witness ==
    /\ Returned
    /\ \E a, b, c \in CallIds :
         /\ a < b /\ b < c
         /\ calls[a].parent = calls[b].parent /\ calls[b].parent = calls[c].parent
         /\ calls[a].path = calls[b].path
         /\ calls[c].path # calls[a].path
         /\ \A k \in 1..Len(AttemptsFor(calls[a].parent, calls[a].path)) :
                ~Matched(AttemptsFor(calls[a].parent, calls[a].path)[k])
         /\ Matched(c)

(***************************************************************************)
(* Direct calls of validate_node: one schema node, one path, and a         *)
(* filesystem in which the path is a file, a directory, or absent.         *)
(***************************************************************************)
F_1_jpg == <<"1", ".", "j", "p", "g">>
F_1a_jpg == <<"1", "a", ".", "j", "p", "g">>
F_ajpg == <<"a", "j", "p", "g">>
F_a_json == <<"a", ".", "j", "s", "o", "n">>
D_12 == <<"1", "2">>
D_1a == <<"1", "a">>

EntryNames == {F_a_jpg, F_1_jpg, F_1a_jpg, F_ajpg, F_a_json, D_12, D_1a, D_d}

NodePool ==
    {File("item", ext, pat) : ext \in {<<>>, E_jpg}, pat \in {NoPattern, PatternDigits}}
    \cup {Directory("sub", pat, <<>>) : pat \in {NoPattern, PatternDigits}}

\* the filesystems in which `path`, an entry of root, is a file, a directory, absent
FsAround(root, path) ==
    {[files |-> {path}, dirs |-> {root}],
     [files |-> {}, dirs |-> {root, path}],
     [files |-> {}, dirs |-> {root}]}

\* the variables of validate_schema that are not its arguments
run == <<phase, stack, parent_contexts, registry, report, predicate_report,
         predicate_runs, invocations, calls>>

\* no validate_schema run is going on
NoRun ==
    /\ schema = 1
    /\ target_path = P_data
    /\ execute_actions = FALSE
    /\ context = None
    /\ actions = NoActions
    /\ validators = NoValidators
    /\ phase = "idle"
    /\ stack = <<>>
    /\ parent_contexts = <<>>
    /\ report = NewReport
    /\ predicate_report = <<>>
    /\ predicate_runs = 0
    /\ invocations = <<>>
    /\ calls = <<>>

InitNodes ==
    /\ NoRun
    /\ registry = NewRegistry
    /\ \E node \in NodePool, name \in EntryNames :
          /\ fs \in FsAround(target_path, PathJoin(target_path, name))
          /\ probe = [fn |-> "validate_node", node |-> node,
                      path |-> PathJoin(target_path, name),
                      returned |-> FALSE, result |-> <<>>]

\* SchemaValidator.validate_node(node, path)
CallValidateNode ==
    /\ probe.fn = "validate_node"
    /\ ~probe.returned
    /\ probe' = [probe EXCEPT !.returned = TRUE,
                              !.result = validate_node(fs, probe.node, probe.path)]
    /\ UNCHANGED <<schema, target_path, fs, execute_actions, context, actions,
                   validators, run>>

NextNodes == CallValidateNode

SpecNodes == InitNodes /\ [][NextNodes]_vars

\* validate_node has returned for a node of the given type
NodeProbe(type) ==
    probe.fn = "validate_node" /\ probe.returned /\ probe.node.type = type

\* the validator names of a list of results, in order
Tags(results) == [i \in 1..Len(results) |-> results[i].validator_name]

(***************************************************************************)
(* C11: file node validation.  A path that is not a file gets exactly one  *)
(* failure, file_exists, and nothing else.  Otherwise the report is what   *)
(* the extension check alone reports followed by what the pattern check    *)
(* alone reports: each is empty or one failure (file_extension,            *)
(* file_pattern), neither depends on the other, and a check that is not    *)
(* configured reports nothing.                                             *)
(***************************************************************************)
C11_FileChecksIndependent ==
    NodeProbe("file") =>
        LET node == probe.node
            path == probe.path
            result == probe.result
            only_ext == validate_file(fs, [node EXCEPT !.pattern_validation = NoPattern], path)
            only_pat == validate_file(fs, [node EXCEPT !.extension = <<>>], path)
        IN  IF ~isfile(fs, path)
            THEN Tags(result) = <<"file_exists">> /\ ~result[1].is_valid
            ELSE /\ result = only_ext \o only_pat
                 /\ \A i \in 1..Len(result) : ~result[i].is_valid
                 /\ Tags(only_ext) \in {<<>>, <<"file_extension">>}
                 /\ Tags(only_pat) \in {<<>>, <<"file_pattern">>}
                 /\ (node.extension = <<>> => only_ext = <<>>)
                 /\ (node.pattern_validation = NoPattern => only_pat = <<>>)

\* an existing file failed both checks and the report holds both failures
C11_Witness ==
    /\ NodeProbe("file")
    /\ isfile(fs, probe.path)
    /\ Tags(probe.result) = <<"file_extension", "file_pattern">>

(***************************************************************************)
(* validate_schema on the trees of the failing-case tests and on a schema  *)
(* with a predicate below the root                                         *)
(***************************************************************************)
CaseFileNames == {F_a_jpg, F_a_json, F_a_txt}

FsPoolCases(root) ==
    {[files |-> {PathJoin(root, f) : f \in F}, dirs |-> {root}] :
        F \in {T \in SUBSET CaseFileNames : Cardinality(T) <= MaxFiles}}
    \cup {[files |-> {PathJoin(PathJoin(root, d), g) : g \in G},
           dirs |-> {root, PathJoin(root, d)}] :
            G \in {T \in SUBSET CaseFileNames : Cardinality(T) <= MaxFiles},
            d \in DirNames}

InitCases ==
    /\ schema \in (Len(SchemaPool) + 1)..Len(Schemas)
    /\ target_path \in TargetPaths
    /\ fs \in FsPoolCases(target_path)
    /\ \E setup \in RunSetups :
          /\ execute_actions = setup.execute_actions
          /\ context = setup.context
          /\ actions = setup.actions
          /\ validators = setup.validators
    /\ phase = "structure"
    /\ stack = <<Frame(1, 1, target_path)>>
    /\ parent_contexts = <<>>
    /\ registry = NewRegistry
    /\ report = NewReport
    /\ predicate_report = <<>>
    /\ predicate_runs = 0
    /\ invocations = <<>>
    /\ calls = <<Call(1, target_path, 0, 0)>>
    /\ probe = NoProbe

SpecCases == InitCases /\ [][Next]_vars

\* the run validates the schema `sch`
RunOf(sch) == Schemas[schema] = sch

\* the observed target directory holds the file `name` and nothing else
HoldsOnly(name) ==
    /\ isdir(fs, target_path)
    /\ Entries(fs, target_path) = {PathJoin(target_path, name)}
    /\ isfile(fs, PathJoin(target_path, name))

(***************************************************************************)
(* C12: a Directory schema with one File child of extension jpg, against a *)
(* directory that holds only a file named *.json, returns an invalid       *)
(* report with a file_extension failure whose message names the expected   *)
(* extension jpg and the observed extension json; against a directory that *)
(* holds only a.jpg the report is valid.                                   *)
(***************************************************************************)
C12_JsonInsteadOfJpg ==
    Returned /\ RunOf(SchemaSingle) =>
        /\ HoldsOnly(F_a_json) =>
              /\ ~IsValid(report.results)
              /\ \E i \in 1..Len(report.results) :
                    /\ report.results[i].validator_name = "file_extension"
                    /\ ~report.results[i].is_valid
                    /\ report.results[i].path = PathJoin(target_path, F_a_json)
                    /\ report.results[i].message =
                          <<"File extension mismatch: expected ", <<"j", "p", "g">>,
                            ", got ", <<"j", "s", "o", "n">>>>
        /\ HoldsOnly(F_a_jpg) => IsValid(report.results)

\* the run on a directory holding only a.json has returned its report
C12_Witness ==
    /\ Returned
    /\ RunOf(SchemaSingle)
    /\ HoldsOnly(F_a_json)
    /\ Len(report.results) > 0

(***************************************************************************)
(* C20 (as claimed): a pair_comparison declared as a child of a Directory  *)
(* schema D below the root is enforced inside every observed directory     *)
(* that matched D, whatever its real name: a file matched there as the     *)
(* first element without a counterpart of the same base name yields a      *)
(* failure of the predicate.                                               *)
(***************************************************************************)
C20_NestedPredicateEnforced ==
    Returned /\ RunOf(SchemaNested) /\ validators = NoValidators
             /\ IsValid(StructuralResults) =>
        \A k \in 1..Len(get_contexts_by_name(registry, "sub")) :
            LET dir == get_contexts_by_name(registry, "sub")[k].path
                inside(name) ==
                    {q \in Range(get_paths_by_name(registry, name)) :
                        Join(ButLast(Split(q, Slash)), Slash) = dir}
            IN  \A q \in inside("image") :
                    (\A l \in inside("label") : BaseName(l) # BaseName(q)) =>
                        \E i \in 1..Len(report.results) :
                            /\ ~report.results[i].is_valid
                            /\ report.results[i].validator_name = "pairs"

\* the last component of a path
NameOf(path) == Last(Split(path, Slash))

\* the text after the final "." of a file name is ext
HasSuffix(name, ext) ==
    LET parts == Split(name, Dot)
    IN  Len(parts) > 1 /\ Last(parts) = ext

(***************************************************************************)
(* C13 (as claimed): for a File node with a declared extension and an      *)
(* existing file, the extension check passes if and only if the text after *)
(* the final "." of the file name equals the extension; a name without a   *)
(* dot, or one that only ends with the extension's characters, fails.      *)
(***************************************************************************)
C13_ExtensionIsSuffix ==
    NodeProbe("file") /\ isfile(fs, probe.path) /\ probe.node.extension # <<>> =>
        ("file_extension" \notin Range(Tags(probe.result))
            <=> HasSuffix(NameOf(probe.path), probe.node.extension))

\* a file name without its final extension
Stem(name) ==
    LET parts == Split(name, Dot)
    IN  IF Len(parts) = 1 THEN name ELSE Join(ButLast(parts), Dot)

\* the pattern matches the whole of s
FullMatch(pat, s) == (Len(s) + 1) \in MatchEnds(pat, 1, s, 1)

(***************************************************************************)
(* C14 (as claimed): for a node with a pattern, the name check passes if   *)
(* and only if the whole name matches the pattern, the name being the file *)
(* name without its extension for a File and the last path component for a *)
(* Directory; a name of which only a proper prefix matches fails.          *)
(***************************************************************************)
C14_WholeNameMatches ==
    /\ NodeProbe("file") /\ isfile(fs, probe.path)
         /\ probe.node.pattern_validation # NoPattern =>
            ("file_pattern" \notin Range(Tags(probe.result))
                <=> FullMatch(probe.node.pattern_validation, Stem(NameOf(probe.path))))
    /\ NodeProbe("directory") /\ isdir(fs, probe.path)
         /\ probe.node.pattern_validation # NoPattern =>
            ("directory_pattern" \notin Range(Tags(probe.result))
                <=> FullMatch(probe.node.pattern_validation, NameOf(probe.path)))

(***************************************************************************)
(* C15: directory node validation.  A path that is not a directory gets    *)
(* exactly one failure, directory_exists, and nothing else.  Otherwise the *)
(* report is one directory_pattern failure when a pattern is configured    *)
(* and Pattern.match rejects the directory name, and is empty in every     *)
(* other case.                                                             *)
(***************************************************************************)
C15_DirectoryChecks ==
    NodeProbe("directory") =>
        LET node == probe.node
            result == probe.result
        IN  IF ~isdir(fs, probe.path)
            THEN Tags(result) = <<"directory_exists">> /\ ~result[1].is_valid
            ELSE IF node.pattern_validation # NoPattern
                    /\ ~ReMatch(node.pattern_validation, NameOf(probe.path))
            THEN Tags(result) = <<"directory_pattern">> /\ ~result[1].is_valid
            ELSE result = <<>>

\* a path that is not a directory was validated against a Directory node whose
\* pattern rejects its name
C15_Witness ==
    /\ NodeProbe("directory")
    /\ ~isdir(fs, probe.path)
    /\ probe.node.pattern_validation # NoPattern
    /\ ~ReMatch(probe.node.pattern_validation, NameOf(probe.path))
    /\ Len(probe.result) = 1

(***************************************************************************)
(* Direct calls of validate_predicate: a pair_comparison predicate, the    *)
(* path of its containing directory, and a registry filled by              *)
(* register_node with matched files.                                       *)
(***************************************************************************)
P_x_data == <<"x", "/", "d", "a", "t", "a">>

PredicateRoots == {P_data, P_x_data}

F_a_b_jpg == <<"a", ".", "b", ".", "j", "p", "g">>
F_a_c_txt == <<"a", ".", "c", ".", "t", "x", "t">>
F_b_png == <<"b", ".", "p", "n", "g">>

\* a matched file: the node (identity and semantical name), and where below the
\* root it was found
Matched_(node, name, where) == [node |-> node, name |-> name, where |-> where]

MatchedPool ==
    << Matched_(2, "image", F_a_jpg),
       Matched_(2, "image", F_b_jpg),
       Matched_(2, "image", F_a_b_jpg),
       Matched_(2, "image", PathJoin(D_d, F_a_jpg)),
       Matched_(3, "label", F_a_txt),
       Matched_(3, "label", F_a_c_txt),
       Matched_(4, "mask", F_b_png) >>

\* the registry after register_node for the root and for the chosen files
RECURSIVE RegistryOf(_, _, _)
RegistryOf(root, chosen, n) ==
    IF n = 0 THEN register_node(NewRegistry, 1, "data", root, <<>>)
    ELSE IF n \notin chosen THEN RegistryOf(root, chosen, n - 1)
    ELSE LET path == PathJoin(root, MatchedPool[n].where)
             dirs == Split(path, Slash)
             parents == [k \in 1..(Len(dirs) - Len(Split(root, Slash))) |->
                           Join(SubSeq(dirs, 1, Len(Split(root, Slash)) + k - 1), Slash)]
         IN  register_node(RegistryOf(root, chosen, n - 1), MatchedPool[n].node,
                           MatchedPool[n].name, path, parents)

PredicatePool ==
    { Predicate("pairs", "pair_comparison", <<"image">>),
      Predicate("pairs", "pair_comparison", <<"image", "label">>),
      Predicate("pairs", "pair_comparison", <<"image", "label", "mask">>) }

InitPredicates ==
    /\ NoRun
    /\ fs = [files |-> {}, dirs |-> {}]
    /\ \E root \in PredicateRoots, chosen \in SUBSET (1..Len(MatchedPool)),
          pred \in PredicatePool :
          /\ registry = RegistryOf(root, chosen, Len(MatchedPool))
          /\ probe = [fn |-> "validate_predicate", pred |-> pred, path |-> root,
                      returned |-> FALSE, result |-> <<>>]

\* SchemaValidator.validate_predicate(predicate_node, path, registry)
CallValidatePredicate ==
    /\ probe.fn = "validate_predicate"
    /\ ~probe.returned
    /\ \E order \in Orderings(RegisteredBaseNames(registry)) :
          probe' = [probe EXCEPT
                       !.returned = TRUE,
                       !.result = validate_predicate(probe.pred, probe.path,
                                                     registry, order)]
    /\ UNCHANGED <<schema, target_path, fs, execute_actions, context, actions,
                   validators, run>>

NextPredicates == CallValidatePredicate

SpecPredicates == InitPredicates /\ [][NextPredicates]_vars

\* validate_predicate has returned for a pair_comparison with two elements or more
PairProbe ==
    /\ probe.fn = "validate_predicate"
    /\ probe.returned
    /\ Len(probe.pred.elements) >= 2

\* the registered paths of the element `name` that under(dir, p) selects
Selected(under(_, _), dir, name) ==
    {p \in Range(get_paths_by_name(registry, name)) : under(dir, p)}

\* the (base name, element) pairs that lack a counterpart, when under(dir, p)
\* selects the paths and base(p) names them
Missing(under(_, _), base(_)) ==
    UNION {{<<base(p), probe.pred.elements[e]>> :
              e \in {k \in 2..Len(probe.pred.elements) :
                       \A q \in Selected(under, probe.path, probe.pred.elements[k]) :
                           base(q) # base(p)}} :
           p \in Selected(under, probe.path, probe.pred.elements[1])}

\* the result is one "Missing matching <element> for <first element> with base
\* name <base>" failure for every pair of `pairs`, and nothing else
EmitsExactly(pairs) ==
    LET result == probe.result
    IN  /\ Len(result) = Cardinality(pairs)
        /\ \A i \in 1..Len(result) :
             /\ ~result[i].is_valid
             /\ result[i].validator_name = probe.pred.semantical_name
             /\ result[i].node_origin = probe.pred.semantical_name
             /\ result[i].path = probe.path
             /\ result[i].message[1] = "Missing matching "
             /\ result[i].message[4] = probe.pred.elements[1]
        /\ {<<result[i].message[6], result[i].message[2]>> : i \in 1..Len(result)} = pairs

(***************************************************************************)
(* C16: pair_comparison emits exactly one failure for each pair (base name *)
(* of a selected first-element path, subsequent element) for which no      *)
(* selected path of that element has that base name; the failure names the *)
(* element and the base name, and nothing else is emitted.  Paths are      *)
(* selected and base names taken as validate_predicate does (lines 386 and *)
(* 394); what they select and strip is the subject of C18 and C19.         *)
(***************************************************************************)
C16_OneFailurePerMissingPair ==
    PairProbe => EmitsExactly(Missing(UnderDirectory, BaseName))

\* image at a.jpg and b.jpg, label only at a.txt: exactly one failure, naming b
\* and label
C16_Witness ==
    /\ PairProbe
    /\ probe.pred.elements = <<"image", "label">>
    /\ Range(get_paths_by_name(registry, "image"))
         = {PathJoin(probe.path, F_a_jpg), PathJoin(probe.path, F_b_jpg)}
    /\ Range(get_paths_by_name(registry, "label")) = {PathJoin(probe.path, F_a_txt)}
    /\ Len(probe.result) = 1
    /\ probe.result[1].message =
          <<"Missing matching ", "label", " for ", "image", " with base name ", <<"b">>>>

(***************************************************************************)
(* C17 (as claimed): a pair_comparison with two elements or more whose     *)
(* first element has no registered path yields an invalid result tagged    *)
(* predicate_element.                                                      *)
(***************************************************************************)
C17_MissingFirstElementFails ==
    PairProbe /\ get_paths_by_name(registry, probe.pred.elements[1]) = <<>> =>
        \E i \in 1..Len(probe.result) :
            /\ ~probe.result[i].is_valid
            /\ probe.result[i].validator_name = "predicate_element"

\* p is an entry of the directory dir
DirectlyIn(dir, p) == Join(ButLast(Split(p, Slash)), Slash) = dir

\* the file name of p with its final extension stripped
FinalBase(p) == Stem(NameOf(p))

(***************************************************************************)
(* C18 (as claimed): the base name pair_comparison compares is the file    *)
(* name with only its final extension stripped, so a.b.jpg (a.b) does not  *)
(* pair with a.c.txt (a.c).  Stated on registries whose files are all      *)
(* entries of the predicate's directory.                                   *)
(***************************************************************************)
C18_FinalExtensionStripped ==
    PairProbe /\ (\A p \in DOMAIN registry.nodes_by_path :
                     p = probe.path \/ DirectlyIn(probe.path, p)) =>
        \A e \in 2..Len(probe.pred.elements) :
            (\E i \in 1..Len(probe.result) :
                 probe.result[i].message[2] = probe.pred.elements[e])
            <=> (\E p \in Selected(DirectlyIn, probe.path, probe.pred.elements[1]) :
                    \A q \in Selected(DirectlyIn, probe.path, probe.pred.elements[e]) :
                        FinalBase(q) # FinalBase(p))

(***************************************************************************)
(* C19 (as claimed): a registered path is considered if and only if the    *)
(* path of the predicate's directory is a proper path prefix of it, at any *)
(* depth and however many components that directory path has.  Stated on   *)
(* registries whose file names hold one dot.                               *)
(***************************************************************************)
C19_PrefixContainment ==
    PairProbe /\ (\A p \in DOMAIN registry.nodes_by_path :
                     p = probe.path \/ Len(Split(NameOf(p), Dot)) = 2) =>
        EmitsExactly(Missing(Below, BaseName))

(***************************************************************************)
(* C21 (as claimed): within one run register_node is called at most once   *)
(* for any path, also when several declared sibling Directory children     *)
(* pass node validation for the same observed directory.  Stated for the   *)
(* runs without custom validators.                                         *)
(***************************************************************************)
C21_RegisteredOncePerPath ==
    validators = NoValidators =>
        \A c, e \in CallIds :
            calls[c].registered /\ calls[e].registered /\ calls[c].path = calls[e].path
                => c = e

(***************************************************************************)
(* C22 (as claimed): when predicate evaluation or the AFTER_VALIDATION     *)
(* actions consult the registry, every (node, path) it lists under a name  *)
(* is a pair whose _validate_structure call returned a valid report.       *)
(* Stated for the runs without custom validators.                          *)
(***************************************************************************)
C22_RegistryHoldsMatchedPairs ==
    validators = NoValidators /\ phase \in {"predicates", "actions"} =>
        \A name \in DOMAIN registry.nodes_by_name :
            \A k \in 1..Len(registry.nodes_by_name[name]) :
                \E c \in CallIds :
                    /\ calls[c].node = registry.nodes_by_name[name][k].node
                    /\ calls[c].path = registry.nodes_by_name[name][k].path
                    /\ Matched(c)

(***************************************************************************)
(* Vocabulary of the parent_contexts stack                                 *)
(***************************************************************************)
\* the frame has executed the append of line 139 and not yet the pop of 167
HasPushed(frame) == frame.pc \in {"candidates", "await", "merge", "leave"}

\* the (schema node, path) pairs of the calls that are between push and pop
OpenDirectories ==
    SelectSeq([k \in 1..Len(stack) |-> <<stack[k].node, stack[k].path>>],
              LAMBDA pair : \E k \in 1..Len(stack) :
                  /\ HasPushed(stack[k])
                  /\ pair = <<stack[k].node, stack[k].path>>)

\* the directories from the validated root down to the parent of path p
AncestorPaths(p) ==
    [k \in 1..(Len(Split(p, Slash)) - Len(Split(target_path, Slash))) |->
        Join(SubSeq(Split(p, Slash), 1,
                    Len(Split(target_path, Slash)) + k - 1), Slash)]

(***************************************************************************)
(* C28: parent_contexts is a stack kept in step with the traversal.  While *)
(* a node is validated against path p it holds exactly the (Directory      *)
(* node, directory path) pairs of the enclosing calls, whose paths are the *)
(* ancestors of p from the root to p's parent; the parent_paths stored in  *)
(* the registry are those ancestors; a call that returns normally leaves   *)
(* the stack as it found it, so it is empty once the structure pass has    *)
(* returned.                                                               *)
(***************************************************************************)
C28_ParentStackDiscipline ==
    /\ phase = "structure" /\ stack # <<>> =>
          /\ parent_contexts = OpenDirectories
          /\ \A k \in 1..Len(stack) - 1 : HasPushed(stack[k])
          /\ ~HasPushed(Top) =>
                /\ ParentPaths(parent_contexts) = AncestorPaths(Top.path)
                /\ \A k \in 1..Len(parent_contexts) :
                      /\ Node(parent_contexts[k][1]).type = "directory"
                      /\ isdir(fs, parent_contexts[k][2])
    /\ phase \in {"predicates", "actions", "returned"} => parent_contexts = <<>>
    /\ \A path \in DOMAIN registry.nodes_by_path :
          registry.nodes_by_path[path].parent_paths = AncestorPaths(path)
    /\ \A name \in DOMAIN registry.nodes_by_name :
          \A k \in 1..Len(registry.nodes_by_name[name]) :
              registry.nodes_by_name[name][k].parent_paths
                  = AncestorPaths(registry.nodes_by_name[name][k].path)

\* a file two levels down is registered after an earlier candidate for its
\* parent directory had failed
C28_Witness ==
    /\ InFrame("actions")
    /\ Len(parent_contexts) = 2
    /\ Top.path \in DOMAIN registry.nodes_by_path
    /\ Len(registry.nodes_by_path[Top.path].parent_paths) = 2
    /\ \E c \in CallIds :
          /\ calls[c].path = parent_contexts[2][2]
          /\ calls[c].returned
          /\ ~IsValid(calls[c].results)

(***************************************************************************)
(* C29: required children are not enforced.  Every invalid result of the   *)
(* structural report names the target or an observed entry, never a        *)
(* declared child that is absent; a schema that declares children, run     *)
(* against an existing empty directory, gets a structural report without   *)
(* any result, its predicates are evaluated once and the run goes on to    *)
(* the pass of the AFTER_VALIDATION actions and returns a valid report.    *)
(***************************************************************************)
EmptyTarget ==
    /\ isdir(fs, target_path)
    /\ Entries(fs, target_path) = {}
    /\ Node(1).children # <<>>

C29_RequiredChildrenNotEnforced ==
    /\ [](StructureReturned =>
            \A i \in 1..Len(StructuralResults) :
                ~StructuralResults[i].is_valid =>
                    StructuralResults[i].path \in fs.files \cup fs.dirs \cup {target_path})
    /\ [](EmptyTarget =>
            /\ phase # "raised"
            /\ StructureReturned => StructuralResults = <<>>
            /\ phase \in {"actions", "returned"} => predicate_runs = 1
            /\ Returned => IsValid(report.results))
    /\ [][EmptyTarget /\ phase = "predicates" => phase' = "actions"]_vars
    /\ [][EmptyTarget /\ phase = "actions" =>
            /\ phase' = "returned"
            /\ AfterActionsRequested =>
                  invocations' = invocations \o
                      execute_actions_calls(actions, registry, context,
                                            "AFTER_VALIDATION")]_vars

\* the run on an empty directory has been through the predicates and the
\* action pass of a schema with a pair predicate and registered actions
C29_Witness ==
    /\ EmptyTarget
    /\ Returned
    /\ execute_actions
    /\ actions # NoActions
    /\ predicate_runs = 1
    /\ PredicateNames # {}
    /\ IsValid(report.results)

(***************************************************************************)
(* C25: a Directory schema node without declared children and without a    *)
(* pattern is valid against every observed directory, empty or not: the    *)
(* report of its _validate_structure call holds no invalid result, and so  *)
(* does the structural report when the node is the root.  Stated for the   *)
(* runs without custom validators.                                         *)
(***************************************************************************)
IsBareDirectory(n) ==
    /\ Node(n).type = "directory"
    /\ Node(n).children = <<>>
    /\ Node(n).pattern_validation = NoPattern

C25_BareDirectoryAlwaysValid ==
    validators = NoValidators =>
        /\ \A c \in CallIds :
              /\ calls[c].returned
              /\ IsBareDirectory(calls[c].node)
              /\ isdir(fs, calls[c].path)
              => calls[c].results = <<>>
        /\ StructureReturned /\ IsBareDirectory(1) /\ isdir(fs, target_path)
              => /\ IsValid(StructuralResults)
                 /\ Returned => IsValid(report.results)

\* a bare root has returned from a directory that holds a sub-directory with
\* files, and a bare sub-directory node from one that holds files
C25_Witness ==
    /\ validators = NoValidators
    /\ \E c \in CallIds :
          /\ calls[c].returned
          /\ IsBareDirectory(calls[c].node)
          /\ isdir(fs, calls[c].path)
          /\ Cardinality(Entries(fs, calls[c].path)) = MaxFiles
          /\ \/ c = 1 /\ fs.dirs # {target_path}
             \/ c > 1

(***************************************************************************)
(* validate_schema as a running program: one thread that executes its next *)
(* statement as long as it has one, so a step that stays possible is       *)
(* eventually taken.  The runs are those of two of the RunSetups: one with *)
(* a callback that raises during validation, one whose callbacks return.   *)
(***************************************************************************)
LiveSetups ==
    { RunSetup(TRUE, None, ActionsDuringRaising, NoValidators),
      RunSetup(TRUE, UserDict, ActionsMixed, NoValidators) }

InitLive ==
    /\ Init
    /\ RunSetup(execute_actions, context, actions, validators) \in LiveSetups

SpecLive == InitLive /\ [][Next]_vars /\ WF_vars(Next)

\* no registered callback raises
CallbacksReturn == \A i \in 1..Len(actions) : ~actions[i].raises

(***************************************************************************)
(* C30: validate_schema terminates.  Every run comes to its end, and when  *)
(* the registered callbacks return, structural matching, predicate         *)
(* evaluation and the action pass all finish and the report is returned.   *)
(***************************************************************************)
C30_Terminates ==
    /\ <>(phase \in {"returned", "raised"})
    /\ CallbacksReturn => <>Returned

\* a run with nested calls, a failed candidate, predicates and callbacks has
\* returned its report
C30_Witness ==
    /\ Returned
    /\ CallbacksReturn
    /\ Len(calls) >= 5
    /\ Len(parent_contexts) = 0
    /\ predicate_runs = 1
    /\ invocations # <<>>
    /\ \E c \in CallIds : calls[c].returned /\ ~IsValid(calls[c].results)

(***************************************************************************)
(* Two runs of validate_schema, one after the other, on the same schema,   *)
(* the same observed tree and the same registrations.  The caller keeps    *)
(* what the first run gave (`probe`) and calls again; every call starts    *)
(* from a new registry and a new report (validators.py 35-38).  Each run   *)
(* takes its own listing orders and its own iteration orders.              *)
(***************************************************************************)
TwiceSetups ==
    { RunSetup(FALSE, None, NoActions, NoValidators),
      RunSetup(TRUE, None, ActionsDuringRaising, NoValidators),
      RunSetup(TRUE, UserDict, ActionsMixed, ValidatorsPerm),
      RunSetup(TRUE, None, ActionsAfter, ValidatorsBoomSeen) }

InitTwice ==
    /\ Init
    /\ RunSetup(execute_actions, context, actions, validators) \in TwiceSetups

\* the (semantic name, schema node, path) entries a registry lists
RegistryEntries(reg) ==
    UNION {{<<name, reg.nodes_by_name[name][k].node, reg.nodes_by_name[name][k].path>> :
              k \in 1..Len(reg.nodes_by_name[name])} :
           name \in DOMAIN reg.nodes_by_name}

\* the (schema node, path) pairs attempted, in the order of the attempts
Visited == [c \in CallIds |-> <<calls[c].node, calls[c].path>>]

\* the first run has ended; its outcome is kept and validate_schema is called again
RunAgain ==
    /\ phase \in {"returned", "raised"}
    /\ probe = NoProbe
    /\ probe' = [fn |-> "validate_schema", phase |-> phase,
                 results |-> report.results,
                 entries |-> RegistryEntries(registry),
                 visited |-> Visited]
    /\ phase' = "structure"
    /\ stack' = <<Frame(1, 1, target_path)>>
    /\ parent_contexts' = <<>>
    /\ registry' = NewRegistry
    /\ report' = NewReport
    /\ predicate_report' = <<>>
    /\ predicate_runs' = 0
    /\ invocations' = <<>>
    /\ calls' = <<Call(1, target_path, 0, 0)>>
    /\ UNCHANGED <<schema, target_path, fs, execute_actions, context, actions,
                   validators>>

NextTwice == Next \/ RunAgain

SpecTwice == InitTwice /\ [][NextTwice]_vars

\* the second of the two runs has ended
SecondRunEnded == probe.fn = "validate_schema" /\ phase \in {"returned", "raised"}

\* s and t hold the same elements the same number of times
SameMultiset(s, t) ==
    /\ Len(s) = Len(t)
    /\ \A i \in 1..Len(s) :
          Cardinality({j \in 1..Len(s) : s[j] = s[i]})
              = Cardinality({j \in 1..Len(t) : t[j] = s[i]})

(***************************************************************************)
(* C23: validate_schema is deterministic.  Two runs on the same schema,    *)
(* the same unchanged tree and the same registrations end the same way,    *)
(* and when they return, their reports hold the same ValidationResults the *)
(* same number of times.                                                   *)
(***************************************************************************)
C23_Deterministic ==
    SecondRunEnded =>
        /\ phase = probe.phase
        /\ Returned => SameMultiset(report.results, probe.results)

\* two runs that attempted the same pairs in the same order have returned
\* the same failures in a different order
C23_Witness ==
    /\ SecondRunEnded
    /\ Returned
    /\ Visited = probe.visited
    /\ report.results # probe.results
    /\ \E i \in 1..Len(report.results) : ~report.results[i].is_valid

(***************************************************************************)
(* C24: the outcome does not depend on the order in which a directory is   *)
(* listed.  Two runs that were given the entries of the same tree in       *)
(* different orders return reports of the same validity with the same      *)
(* multiset of ValidationResults, and their registries hold the same set   *)
(* of (semantic name, path) entries.                                       *)
(***************************************************************************)
C24_ListingOrderIrrelevant ==
    SecondRunEnded /\ Returned /\ probe.phase = "returned"
    /\ Visited # probe.visited =>
        /\ IsValid(report.results) = IsValid(probe.results)
        /\ SameMultiset(report.results, probe.results)
        /\ RegistryEntries(registry) = probe.entries

\* two runs that were given the entries in different orders have returned
\* reports with failures, after registering nodes
C24_Witness ==
    /\ SecondRunEnded
    /\ Returned
    /\ probe.phase = "returned"
    /\ Visited # probe.visited
    /\ probe.entries # {}
    /\ \E i \in 1..Len(report.results) : ~report.results[i].is_valid
    /\ \E i \in 1..Len(report.results) :
          ~report.results[i].is_valid /\ report.results[i] # probe.results[i]

(***************************************************************************)
(* Runs on filesystems with directories that cannot be listed, and with a  *)
(* custom validator that signs its results with a name of its own choice.  *)
(***************************************************************************)
FsPoolFaults(root) ==
    {[files |-> f.files, dirs |-> f.dirs, unreadable |-> U] :
        f \in FsPoolCases(root), U \in SUBSET {root, PathJoin(root, D_d)}}

\* a validator registered as perm whose failures carry validator_name permissions
ValidatorsSigned ==
    <<Validator("perm", "fail", {"item", "label"}, "permissions"),
      Validator("boom", "raise", {"image"}, "boom")>>

FaultSetups ==
    { RunSetup(FALSE, None, NoActions, NoValidators),
      RunSetup(TRUE, UserDict, ActionsMixed, NoValidators),
      RunSetup(TRUE, None, ActionsDuringRaising, NoValidators),
      RunSetup(FALSE, None, NoActions, ValidatorsSigned) }

InitFaults ==
    /\ schema \in (Len(SchemaPool) + 1)..Len(Schemas)
    /\ target_path \in TargetPaths
    /\ fs \in FsPoolFaults(target_path)
    /\ \E setup \in FaultSetups :
          /\ execute_actions = setup.execute_actions
          /\ context = setup.context
          /\ actions = setup.actions
          /\ validators = setup.validators
    /\ phase = "structure"
    /\ stack = <<Frame(1, 1, target_path)>>
    /\ parent_contexts = <<>>
    /\ registry = NewRegistry
    /\ report = NewReport
    /\ predicate_report = <<>>
    /\ predicate_runs = 0
    /\ invocations = <<>>
    /\ calls = <<Call(1, target_path, 0, 0)>>
    /\ probe = NoProbe

SpecFaults == InitFaults /\ [][Next]_vars

(***************************************************************************)
(* C26 (as claimed): an I/O error raised by a filesystem operation never   *)
(* leaves validate_schema.  A run is only ever ended by an exception when  *)
(* a callback raised, and a returned report holds an invalid result for    *)
(* every attempted directory that cannot be listed.                        *)
(***************************************************************************)
C26_IOErrorNeverPropagates ==
    /\ phase = "raised" =>
          /\ invocations # <<>>
          /\ Last(invocations).raised
    /\ Returned =>
          \A c \in CallIds :
              /\ calls[c].path \in Unreadable(fs)
              /\ Node(calls[c].node).type = "directory"
              => \E i \in 1..Len(report.results) :
                    /\ ~report.results[i].is_valid
                    /\ report.results[i].path = calls[c].path

(***************************************************************************)
(* C27 (as claimed): every registered custom validator runs for every      *)
(* attempted (node, path) pair, also when the built-in validation fails;   *)
(* its results follow the built-in ones in the pair's report; every        *)
(* failure it contributes, returned or caused by its raising, carries the  *)
(* name it is registered under; a raising validator stops nothing.         *)
(***************************************************************************)
C27_ValidatorFailuresCarryRegisteredName ==
    \A c \in CallIds :
        calls[c].returned =>
            LET built_in == validate_node(fs, Node(calls[c].node), calls[c].path)
                custom == [v \in 1..Len(validators) |->
                              RunValidator(validators[v], Node(calls[c].node),
                                           calls[c].path)]
            IN  /\ calls[c].step1 = built_in \o Flatten(custom)
                /\ \A v \in 1..Len(validators) :
                      \A i \in 1..Len(custom[v]) :
                          ~custom[v][i].is_valid =>
                              custom[v][i].validator_name = validators[v].name

=============================================================================
